---- MODULE Spec2Model ----
(***************************************************************************)
(* Model of the fraud-detection data pipeline:                             *)
(*   - DataPreprocessor  (src/src/features/preprocessor.py)                *)
(*   - FeatureEngineer   (src/src/features/feature_engineer.py)            *)
(*   - predict_fraud     (src/api/main.py)                                 *)
(* A DataFrame is [columns: ordered column names, rows: sequence of rows], *)
(* a row maps each column name to a cell.  Cells are tagged so that a raw  *)
(* string, a missing value, an integer and a standardized float are all    *)
(* distinguishable values of one shape.                                    *)
(***************************************************************************)
EXTENDS Integers, Sequences, FiniteSets, TLC

VARIABLES
    \* ---- DataPreprocessor instance fields (preprocessor.py:26-36)
    label_encoders,        \* Dict[str, LabelEncoder]: column -> classes_
    scaler,                \* StandardScaler or None
    numeric_features,      \* List[str]
    categorical_features,  \* List[str]
    features_to_drop,      \* List[str]
    \* ---- the calls made on the preprocessor
    op,                    \* last method called
    df,                    \* its input batch
    result,                \* what it returned (or that it raised)
    fit_df,                \* input of the last fit_transform
    fit_result,            \* result of the last fit_transform
    \* ---- feature engineering, training side and serving side
    rec,                   \* one raw transaction record
    train,                 \* FeatureEngineer.fit_transform(rec)
    serve,                 \* the features predict_fraud derives from rec
    batch,                 \* a raw DataFrame of several records
    batch_out,             \* FeatureEngineer.fit_transform(batch)
    single_out,            \* per row i: FeatureEngineer.fit_transform(batch.iloc[[i]])
    \* ---- the saved artifacts and the process that reads them
    files,                 \* models/saved_models: the two pickle files
    proc,                  \* the reading process: none, a loader, the API
    other,                 \* a second DataPreprocessor, which loads the file
    api,                   \* main.py module globals: model, preprocessor
    reply,                 \* last call made on the reading process
    \* ---- FraudMonitor (fraud_monitor.py:19-27)
    baseline_data,         \* DataFrame read from the baseline file
    drift_log,             \* list of drift results, one per run
    drift_call,            \* last detect_data_drift call: arguments, result
    predictions_log,       \* list of log entries, one per log_prediction call
    predictions_file,      \* ../logs/monitoring/predictions_log.json
    clock,                 \* datetime.now(), in ticks: one per monitor call
    traffic,               \* the kind of predictions this monitor is fed
    alerts_file,           \* ../logs/monitoring/alerts.json
    threads,               \* per thread: position in check_for_alerts, locals
    raised,                \* every alert built by a check_for_alerts call so far
    performance_log,       \* list of metrics, one per evaluation run
    report_file            \* ../logs/monitoring/monitoring_report.json

pp_vars == <<label_encoders, scaler, numeric_features, categorical_features,
             features_to_drop>>
call_vars == <<op, df, result, fit_df, fit_result>>
batch_vars == <<batch, batch_out, single_out>>
fe_vars == <<rec, train, serve, batch_vars>>
art_vars == <<files, proc, other, api, reply>>
log_vars == <<predictions_log, predictions_file, traffic>>
alert_vars == <<alerts_file, threads, raised>>
report_vars == <<performance_log, report_file>>
store_vars == <<log_vars, clock, alert_vars, report_vars>>
mon_vars == <<baseline_data, drift_log, drift_call, store_vars>>
vars == <<label_encoders, scaler, numeric_features, categorical_features,
          features_to_drop, op, df, result, fit_df, fit_result, rec, train, serve,
          batch, batch_out, single_out,
          files, proc, other, api, reply,
          baseline_data, drift_log, drift_call,
          predictions_log, predictions_file, clock, traffic,
          alerts_file, threads, raised, performance_log, report_file>>

\* Largest number of rows in a batch handed to the preprocessor.
MaxRows == 2

\* Number of rows of the baseline, and largest number of rows of new data.
MaxSample == 4

\* Largest number of drift runs made on one monitor.
MaxDriftRuns == 1

\* Largest number of records in a batch handed to the feature engineer.
MaxBatch == 2

\* Largest number of log_prediction calls made on one monitor.
MaxPredictions == 250

\* Largest number of check_for_alerts calls made on one monitor.
MaxAlertCalls == 3

\* Largest number of evaluation runs and reports made on one monitor.
MaxReportCalls == 3

----------------------------------------------------------------------------
(* Generic helpers *)

Range(s) == {s[i] : i \in 1..Len(s)}

Contains(s, x) == \E i \in 1..Len(s) : s[i] = x

\* [col for col in s if keep(col)], order preserved
RECURSIVE SelectSeqBy(_, _)
SelectSeqBy(s, keep) ==
    IF s = <<>> THEN <<>>
    ELSE IF Head(s) \in keep THEN <<Head(s)>> \o SelectSeqBy(Tail(s), keep)
    ELSE SelectSeqBy(Tail(s), keep)

IndexOf(s, x) == CHOOSE i \in 1..Len(s) : s[i] = x

RECURSIVE SumSeq(_)
SumSeq(s) == IF s = <<>> THEN 0 ELSE Head(s) + SumSeq(Tail(s))

----------------------------------------------------------------------------
(* Cells and data frames *)

Str(s)        == [kind |-> "str",      s |-> s,  n |-> 0, d |-> 0]
NaN           == [kind |-> "nan",      s |-> "", n |-> 0, d |-> 0]
Int64(n)      == [kind |-> "int",      s |-> "", n |-> n, d |-> 1]
Datetime(n)   == [kind |-> "datetime", s |-> "", n |-> n, d |-> 0]
\* A standardized value num / sqrt(den2), kept exact.
Float(num, den2) == [kind |-> "float", s |-> "", n |-> num,
                     d |-> IF num = 0 THEN 1 ELSE den2]

Column(frame, c) == [i \in 1..Len(frame.rows) |-> frame.rows[i][c]]

\* df.drop(columns=cols, errors='ignore')
Drop(frame, cols) ==
    LET keep == SelectSeqBy(frame.columns, Range(frame.columns) \ cols)
    IN  [columns |-> keep,
         rows |-> [i \in 1..Len(frame.rows) |->
                     [c \in Range(keep) |-> frame.rows[i][c]]]]

\* pandas dtype of a column, as select_dtypes sees it
Dtype(frame, c) ==
    IF \A i \in 1..Len(frame.rows) : frame.rows[i][c].kind \in {"int", "float"}
    THEN "number"
    ELSE IF \A i \in 1..Len(frame.rows) : frame.rows[i][c].kind \in {"str", "nan"}
    THEN "object"
    ELSE "datetime64"

\* Series.astype(str) on one cell: a missing value becomes the string 'nan'
\* (object columns hold strings and missing values only)
AsStr(cell) == IF cell.kind = "nan" THEN "nan" ELSE cell.s

----------------------------------------------------------------------------
(* DataPreprocessor *)

target_col == "is_fraud"

\* The strings that occur in categorical columns, in lexicographic order:
\* LabelEncoder.fit keeps classes_ = np.unique(values), which is sorted.
StrOrder == <<"food", "gas", "nan">>

\* LabelEncoder.fit that keeps classes_ in descending order
LabelEncoder_fit_descending(strings) ==
    LET asc == SelectSeqBy(StrOrder, strings)
    IN  [i \in 1..Len(asc) |-> asc[Len(asc) + 1 - i]]

\* LabelEncoder.fit: classes_ of a column of strings
LabelEncoder_fit(strings) == SelectSeqBy(StrOrder, strings)

\* LabelEncoder.transform([x])[0] for x in classes_
LabelEncoder_transform(classes, x) == IndexOf(classes, x) - 1

\* an instance as a value: the five fitted fields
Self == [label_encoders |-> label_encoders, scaler |-> scaler,
         numeric_features |-> numeric_features,
         categorical_features |-> categorical_features,
         features_to_drop |-> features_to_drop]

NoScaler == [state |-> "None", feature_names |-> <<>>, n_samples |-> 0,
             sum |-> <<>>, sumsq |-> <<>>]
\* StandardScaler(): constructed, not fitted
NewScaler == [state |-> "unfitted", feature_names |-> <<>>, n_samples |-> 0,
              sum |-> <<>>, sumsq |-> <<>>]

\* __init__
NewPreprocessor == [label_encoders |-> <<>>, scaler |-> NoScaler,
                    numeric_features |-> <<>>, categorical_features |-> <<>>,
                    features_to_drop |-> <<>>]

EmptyFrame == [columns |-> <<>>, rows |-> <<>>]
NoY == [present |-> FALSE, values |-> <<>>]
Raised(self, error) == [self |-> self, status |-> "raised", error |-> error,
                        X |-> EmptyFrame, y |-> NoY]
Returned(self, X, y) == [self |-> self, status |-> "returned", error |-> "",
                         X |-> X, y |-> y]

\* identify_feature_types that takes every remaining column as numeric
identify_feature_types_all_numeric(self, frame) ==
    LET drop_cols == <<"transaction_id", "timestamp", target_col>>
        to_drop == SelectSeqBy(drop_cols, Range(frame.columns))
        remaining_cols == SelectSeqBy(frame.columns,
                                      Range(frame.columns) \ Range(to_drop))
        object == {c \in Range(remaining_cols) : Dtype(frame, c) = "object"}
    IN  [self EXCEPT !.features_to_drop = to_drop,
                     !.numeric_features = remaining_cols,
                     !.categorical_features = SelectSeqBy(remaining_cols, object)]

identify_feature_types(self, frame) ==
    LET drop_cols == <<"transaction_id", "timestamp", target_col>>
        to_drop == SelectSeqBy(drop_cols, Range(frame.columns))
        remaining_cols == SelectSeqBy(frame.columns,
                                      Range(frame.columns) \ Range(to_drop))
        numeric == {c \in Range(remaining_cols) : Dtype(frame, c) = "number"}
        object == {c \in Range(remaining_cols) : Dtype(frame, c) = "object"}
    IN  [self EXCEPT !.features_to_drop = to_drop,
                     !.numeric_features = SelectSeqBy(remaining_cols, numeric),
                     !.categorical_features = SelectSeqBy(remaining_cols, object)]

\* EncodeApply with the unseen-category default mistaken for a valid code
EncodeApply_default0(classes, x) ==
    IF Contains(classes, x) THEN LabelEncoder_transform(classes, x) ELSE 0

\* the lambda of line 91: the fitted code, or -1 for an unseen category
EncodeApply(classes, x) ==
    IF Contains(classes, x) THEN LabelEncoder_transform(classes, x) ELSE -1

encode_categorical_features(self, frame, fit) ==
    LET present == {c \in Range(self.categorical_features) : c \in Range(frame.columns)}
        strs(c) == {AsStr(frame.rows[i][c]) : i \in 1..Len(frame.rows)}
        encoders ==
            IF fit
            THEN [c \in (DOMAIN self.label_encoders) \cup present |->
                    IF c \in present THEN LabelEncoder_fit(strs(c))
                    ELSE self.label_encoders[c]]
            ELSE self.label_encoders
        encoded == {c \in present : fit \/ c \in DOMAIN self.label_encoders}
        df_encoded ==
            [columns |-> frame.columns,
             rows |-> [i \in 1..Len(frame.rows) |->
                [c \in Range(frame.columns) |->
                    IF c \in encoded
                    THEN IF fit
                         THEN Int64(LabelEncoder_transform(encoders[c],
                                                          AsStr(frame.rows[i][c])))
                         ELSE Int64(EncodeApply(encoders[c], AsStr(frame.rows[i][c])))
                    ELSE frame.rows[i][c]]]]
    IN  [self |-> [self EXCEPT !.label_encoders = encoders], frame |-> df_encoded]

\* StandardScaler.fit on the columns `names` of frame
StandardScaler_fit(frame, names) ==
    [state |-> "fitted", feature_names |-> names, n_samples |-> Len(frame.rows),
     sum |-> [k \in 1..Len(names) |->
                SumSeq([i \in 1..Len(frame.rows) |-> frame.rows[i][names[k]].n])],
     sumsq |-> [k \in 1..Len(names) |->
                SumSeq([i \in 1..Len(frame.rows) |->
                         frame.rows[i][names[k]].n * frame.rows[i][names[k]].n])]]

\* StandardScaler.transform that divides by sqrt(var_) even where var_ is zero
StandardScaler_transform_raw_std(sc, k, x) ==
    LET n == sc.n_samples
        nvar == n * sc.sumsq[k] - sc.sum[k] * sc.sum[k]
    IN  IF nvar = 0
        THEN IF n * x - sc.sum[k] = 0 THEN NaN
             ELSE [kind |-> "inf", s |-> "", n |-> n * x - sc.sum[k], d |-> 0]
        ELSE Float(n * x - sc.sum[k], nvar)

\* StandardScaler.transform of one value of feature k: (x - mean_) / scale_,
\* scale_ = sqrt(var_), and 1.0 where var_ is zero.
\* With n = n_samples: mean_ = sum/n, var_ = (n*sumsq - sum^2) / n^2.
StandardScaler_transform(sc, k, x) ==
    LET n == sc.n_samples
        nvar == n * sc.sumsq[k] - sc.sum[k] * sc.sum[k]
    IN  IF nvar = 0 THEN Float(n * x - sc.sum[k], n * n)
        ELSE Float(n * x - sc.sum[k], nvar)

\* df_scaled[names] = scaler.transform(df_scaled[names])
ScaleColumns(sc, frame, names) ==
    [columns |-> frame.columns,
     rows |-> [i \in 1..Len(frame.rows) |->
        [c \in Range(frame.columns) |->
            IF Contains(names, c)
            THEN StandardScaler_transform(sc, IndexOf(names, c), frame.rows[i][c].n)
            ELSE frame.rows[i][c]]]]

\* scale_numeric_features that fits the scaler but applies it only when fitting
scale_numeric_features_fit_only(self, frame, fit) ==
    IF fit
    THEN IF self.numeric_features = <<>> \/ frame.rows = <<>>
         THEN [self |-> [self EXCEPT !.scaler = NewScaler], raised |-> "ValueError",
               frame |-> frame]
         ELSE LET sc == StandardScaler_fit(frame, self.numeric_features)
              IN  [self |-> [self EXCEPT !.scaler = sc], raised |-> "",
                   frame |-> ScaleColumns(sc, frame, self.numeric_features)]
    ELSE [self |-> self, raised |-> "", frame |-> frame]

scale_numeric_features(self, frame, fit) ==
    IF fit
    THEN IF self.numeric_features = <<>> \/ frame.rows = <<>>
         THEN [self |-> [self EXCEPT !.scaler = NewScaler], raised |-> "ValueError",
               frame |-> frame]
         ELSE LET sc == StandardScaler_fit(frame, self.numeric_features)
              IN  [self |-> [self EXCEPT !.scaler = sc], raised |-> "",
                   frame |-> ScaleColumns(sc, frame, self.numeric_features)]
    ELSE IF self.scaler.state = "None"
         THEN [self |-> self, raised |-> "", frame |-> frame]
         ELSE IF ~(Range(self.numeric_features) \subseteq Range(frame.columns))
         THEN [self |-> self, raised |-> "KeyError", frame |-> frame]
         ELSE IF self.scaler.state = "unfitted"
         THEN [self |-> self, raised |-> "NotFittedError", frame |-> frame]
         ELSE [self |-> self, raised |-> "",
               frame |-> ScaleColumns(self.scaler, frame, self.numeric_features)]

\* lines 143-152 and 179-188: separate the target, drop the drop-list
SeparateTarget(frame) ==
    IF target_col \in Range(frame.columns)
    THEN [y |-> [present |-> TRUE, values |-> Column(frame, target_col)],
          df_features |-> Drop(frame, {target_col})]
    ELSE [y |-> NoY, df_features |-> frame]

fit_transform(self, frame) ==
    LET self1 == identify_feature_types(self, frame)
        sep == SeparateTarget(frame)
        df_features == Drop(sep.df_features, Range(self1.features_to_drop))
        enc == encode_categorical_features(self1, df_features, TRUE)
        sc == scale_numeric_features(enc.self, enc.frame, TRUE)
    IN  IF sc.raised # "" THEN Raised(sc.self, sc.raised)
        ELSE Returned(sc.self, sc.frame, sep.y)

\* transform that fits the encoders on the batch it is given
transform_refits_encoders(self, frame) ==
    LET sep == SeparateTarget(frame)
        df_features == Drop(sep.df_features, Range(self.features_to_drop))
        enc == encode_categorical_features(self, df_features, TRUE)
        sc == scale_numeric_features(enc.self, enc.frame, FALSE)
    IN  IF sc.raised # "" THEN Raised(sc.self, sc.raised)
        ELSE Returned(sc.self, sc.frame, sep.y)

transform(self, frame) ==
    LET sep == SeparateTarget(frame)
        df_features == Drop(sep.df_features, Range(self.features_to_drop))
        enc == encode_categorical_features(self, df_features, FALSE)
        sc == scale_numeric_features(enc.self, enc.frame, FALSE)
    IN  IF sc.raised # "" THEN Raised(sc.self, sc.raised)
        ELSE Returned(sc.self, sc.frame, sep.y)


----------------------------------------------------------------------------
(* Saved artifacts.  A pickle file holds the items of the pickled dict in  *)
(* insertion order; reading it back looks each key up.                     *)

NoFile == [state |-> "missing", items |-> <<>>]

pickle_dump(keys, obj) ==
    [state |-> "ok", items |-> [i \in 1..Len(keys) |-> <<keys[i], obj[keys[i]]>>]]

\* preprocessor_data[key] of the dict read back from a file
Lookup(file, key) ==
    file.items[CHOOSE i \in 1..Len(file.items) : file.items[i][1] = key][2]

\* the file save_preprocessor writes
save_preprocessor(self) ==
    pickle_dump(<<"label_encoders", "scaler", "numeric_features",
                  "categorical_features", "features_to_drop">>, self)

\* load_preprocessor that reads the two feature lists from each other's key
load_preprocessor_swapped_lists(self, file) ==
    IF file.state = "missing" THEN Raised(self, "FileNotFoundError")
    ELSE IF file.state = "corrupt" THEN Raised(self, "UnpicklingError")
    ELSE Returned([label_encoders |-> Lookup(file, "label_encoders"),
                   scaler |-> Lookup(file, "scaler"),
                   numeric_features |-> Lookup(file, "categorical_features"),
                   categorical_features |-> Lookup(file, "numeric_features"),
                   features_to_drop |-> Lookup(file, "features_to_drop")],
                  EmptyFrame, NoY)

load_preprocessor(self, file) ==
    IF file.state = "missing" THEN Raised(self, "FileNotFoundError")
    ELSE IF file.state = "corrupt" THEN Raised(self, "UnpicklingError")
    ELSE Returned([label_encoders |-> Lookup(file, "label_encoders"),
                   scaler |-> Lookup(file, "scaler"),
                   numeric_features |-> Lookup(file, "numeric_features"),
                   categorical_features |-> Lookup(file, "categorical_features"),
                   features_to_drop |-> Lookup(file, "features_to_drop")],
                  EmptyFrame, NoY)

----------------------------------------------------------------------------
(* The API process (main.py).  A global that may be None is a tagged value. *)

None == [is_none |-> TRUE, value |-> <<>>]
Some(v) == [is_none |-> FALSE, value |-> v]

\* the dict pickle.load returns
pickle_load(file) == [k \in {file.items[i][1] : i \in 1..Len(file.items)} |->
                        Lookup(file, k)]

\* module load, lines 29-41: both globals are set, or both are None; the
\* module finishes loading either way and the app is served
startup(fs) ==
    IF fs.model.state = "ok" /\ fs.preprocessor.state = "ok"
    THEN [running |-> TRUE, model |-> Some("best_model"),
          preprocessor |-> Some(pickle_load(fs.preprocessor))]
    ELSE [running |-> TRUE, model |-> None, preprocessor |-> None]

NotStarted == [running |-> FALSE, model |-> None, preprocessor |-> None]

Response(globals, code, error, X) ==
    [self |-> globals, status |-> code, error |-> error, X |-> X, y |-> NoY]

\* lines 163-168: every stored encoder whose column the request carries
ApplyEncoders(encoders, frame) ==
    [columns |-> frame.columns,
     rows |-> [i \in 1..Len(frame.rows) |->
        [c \in Range(frame.columns) |->
            IF c \in DOMAIN encoders
            THEN Int64(EncodeApply(encoders[c], AsStr(frame.rows[i][c])))
            ELSE frame.rows[i][c]]]]

\* predict_fraud from line 108 on, for the request frame `data` (the
\* transaction's fields after the timestamp is dropped); X is the frame handed
\* to model.predict
predict_fraud(globals, data) ==
    IF globals.model.is_none \/ globals.preprocessor.is_none
    THEN Response(globals, "503", "Model not available", EmptyFrame)
    ELSE LET preprocessor == globals.preprocessor.value
             encoded == ApplyEncoders(preprocessor["label_encoders"], data)
             df_processed == Drop(encoded, Range(preprocessor["features_to_drop"]))
             available_numeric ==
                 SelectSeqBy(preprocessor["numeric_features"],
                             Range(df_processed.columns))
             sc == preprocessor["scaler"]
         IN  IF sc.state # "fitted" \/ available_numeric # sc.feature_names
             THEN Response(globals, "500", "Prediction error", EmptyFrame)
             ELSE Response(globals, "200", "",
                           ScaleColumns(sc, df_processed, available_numeric))


----------------------------------------------------------------------------
(* Input batches *)

\* Two sample transactions over every column a batch may carry.
SampleRows == {
    [transaction_id |-> Str("TXN_000001"), timestamp |-> Datetime(1),
     amount |-> Int64(5), merchant_category |-> Str("gas"), is_fraud |-> Int64(0)],
    [transaction_id |-> Str("TXN_000002"), timestamp |-> Datetime(2),
     amount |-> Int64(9), merchant_category |-> Str("food"), is_fraud |-> Int64(1)] }

\* The column layouts a batch may have: the training layout, the same columns
\* in another order, a serving layout (no identifier, no label), one without a
\* categorical column and one without a numeric column.
Layouts == {
    <<"transaction_id", "timestamp", "amount", "merchant_category", "is_fraud">>,
    <<"merchant_category", "transaction_id", "is_fraud", "amount", "timestamp">>,
    <<"amount", "merchant_category">>,
    <<"amount", "is_fraud">>,
    <<"merchant_category", "is_fraud">> }

MakeFrame(columns, rows) ==
    [columns |-> columns,
     rows |-> [i \in 1..Len(rows) |-> [c \in Range(columns) |-> rows[i][c]]]]

Batches ==
    {MakeFrame(l, r) : l \in Layouts,
                       r \in UNION {[1..k -> SampleRows] : k \in 1..MaxRows}}

\* the request frames: one row of the transaction's fields
Requests ==
    {MakeFrame(<<"amount", "merchant_category">>, <<r>>) : r \in SampleRows}

----------------------------------------------------------------------------
(* FeatureEngineer and the feature derivation of predict_fraud.            *)
(* A record is a one-row DataFrame: a function from column name to value.  *)
(* Amounts are held in hundredths so that 50.01 is a value.  amount_log    *)
(* and amount_to_avg_ratio are real-valued and are not carried.            *)

Cents(units) == units * 100

\* pd.cut(x, bins, labels) with the default right=True, include_lowest=False,
\* followed by .astype(str): bin i is (edges[i], edges[i+1]], the last bin runs
\* to np.inf when bins.inf, and a value in no bin is NaN, hence 'nan'.
\* pd.cut with right=False: bin i is [edges[i], edges[i+1])
Cut_right_false(x, bins, labels) ==
    LET e == bins.edges
        n == Len(e)
    IN  IF \E i \in 1..(n - 1) : e[i] <= x /\ x < e[i + 1]
        THEN labels[CHOOSE i \in 1..(n - 1) : e[i] <= x /\ x < e[i + 1]]
        ELSE IF bins.inf /\ x >= e[n] THEN labels[n]
        ELSE "nan"

Cut(x, bins, labels) ==
    LET e == bins.edges
        n == Len(e)
    IN  IF \E i \in 1..(n - 1) : e[i] < x /\ x <= e[i + 1]
        THEN labels[CHOOSE i \in 1..(n - 1) : e[i] < x /\ x <= e[i + 1]]
        ELSE IF bins.inf /\ x > e[n] THEN labels[n]
        ELSE "nan"

\* amount bins with a mistyped breakpoint
amount_bins_typo == [edges |-> <<Cents(0), Cents(50), Cents(100), Cents(1000)>>, inf |-> TRUE]
amount_bins   == [edges |-> <<Cents(0), Cents(50), Cents(200), Cents(1000)>>, inf |-> TRUE]
amount_labels == <<"very_low", "low", "medium", "high">>
hour_bins     == [edges |-> <<0, 6, 12, 18, 24>>, inf |-> FALSE]
hour_labels   == <<"night", "morning", "afternoon", "evening">>
time_since_bins   == [edges |-> <<0, 10, 60, 300>>, inf |-> TRUE]
time_since_labels == <<"recent", "normal", "long_gap", "very_long">>
distance_bins   == [edges |-> <<0, 10, 50, 200>>, inf |-> TRUE]
distance_labels == <<"very_close", "close", "medium", "far">>
peak_hours == {8, 9, 10, 17, 18, 19}

\* (condition).astype(int)
AsInt(b) == IF b THEN 1 ELSE 0

\* df[name] = value
With(row, name, value) == (name :> value) @@ row

create_amount_features(row) ==
    With(row, "amount_category", Cut(row["amount"], amount_bins, amount_labels))

create_temporal_features(row) ==
    IF "timestamp" \in DOMAIN row
    THEN LET hour == row["timestamp"].hour
             day_of_week == row["timestamp"].dayofweek
         IN  With(With(With(With(With(row,
                "hour", hour),
                "day_of_week", day_of_week),
                "is_weekend", AsInt(day_of_week >= 5)),
                "time_of_day", Cut(hour, hour_bins, hour_labels)),
                "is_peak_hour", AsInt(hour \in peak_hours))
    ELSE row

create_velocity_features(row) ==
    With(With(With(row,
        "is_high_frequency_24h", AsInt(row["num_transactions_24h"] > 5)),
        "is_high_frequency_7d", AsInt(row["num_transactions_7d"] > 20)),
        "time_since_last_cat",
            Cut(row["time_since_last_transaction"], time_since_bins, time_since_labels))

create_distance_features(row) ==
    With(With(With(row,
        "distance_home_cat", Cut(row["distance_from_home"], distance_bins, distance_labels)),
        "is_far_from_home", AsInt(row["distance_from_home"] > 100)),
        "is_far_from_last", AsInt(row["distance_from_last_transaction"] > 50))

\* the four signals both sides sum (feature_engineer.py:113-116, main.py:150-153)
RiskSignals(row) ==
    AsInt(row["amount"] > Cents(1000)) * 2
    + AsInt(row["card_present"] = 0)
    + AsInt(row["distance_from_home"] > 100)
    + AsInt(row["num_transactions_24h"] > 5)

\* the weekend term with the product rounded half up instead of truncated
WeekendTerm_rounded(is_weekend) == (is_weekend * 5 + 5) \div 10

\* (is_weekend * 0.5).astype(int): the product is truncated toward zero
WeekendTerm(is_weekend) == (is_weekend * 5) \div 10

\* df.get('is_weekend', 0) is the plain integer 0 when the column is absent,
\* and 0 * 0.5 is a float without astype: the expression raises.
create_risk_score(row) ==
    IF "is_weekend" \in DOMAIN row /\ "is_peak_hour" \in DOMAIN row
    THEN With(With(row, "risk_score",
                RiskSignals(row)
                + WeekendTerm(row["is_weekend"])
                + AsInt(row["is_peak_hour"] = 0)),
              "status", "returned")
    ELSE [status |-> "raised", error |-> "AttributeError", names |-> {}]

\* the caller's frame after a create_* that writes its columns to df itself
ArgAfter_no_copy(df_arg, written) == written

\* The caller's frame df_arg after a create_* call, `written` being the frame
\* with the columns the call wrote: every create_* rebinds df to df.copy()
\* on its first line, so the columns are written to the copy.
ArgAfter(df_arg, written) == df_arg

\* FeatureEngineer.fit_transform
FeatureEngineer_fit_transform(row) ==
    create_risk_score(
        create_distance_features(
            create_velocity_features(
                create_temporal_features(
                    create_amount_features(row)))))

\* predict_fraud, lines 113-154: the transaction's fields, timestamp = now
predict_features(transaction, now) ==
    LET data == With(transaction, "timestamp", now)
        hour == now.hour
        day_of_week == now.dayofweek
    IN  With(With(With(With(With(With(With(With(With(With(With(With(With(With(data,
        "amount_category", Cut(data["amount"], amount_bins, amount_labels)),
        "hour", hour),
        "day_of_week", day_of_week),
        "is_weekend", AsInt(day_of_week >= 5)),
        "time_of_day", Cut(hour, hour_bins, hour_labels)),
        "is_peak_hour", AsInt(hour \in peak_hours)),
        "is_high_frequency_24h", AsInt(data["num_transactions_24h"] > 5)),
        "is_high_frequency_7d", AsInt(data["num_transactions_7d"] > 20)),
        "time_since_last_cat",
            Cut(data["time_since_last_transaction"], time_since_bins, time_since_labels)),
        "distance_home_cat", Cut(data["distance_from_home"], distance_bins, distance_labels)),
        "is_far_from_home", AsInt(data["distance_from_home"] > 100)),
        "is_far_from_last", AsInt(data["distance_from_last_transaction"] > 50)),
        "risk_score", RiskSignals(data)),
        "status", "returned")

\* Raw transactions: the fields of the Transaction schema (main.py:44-56)
Amounts == {Cents(0), Cents(50), Cents(50) + 1, Cents(200), Cents(1000),
            Cents(1000) + 1, Cents(1500)}
Distances == {0, 100, 150}
TimesSinceLast == {0, 30}
Transactions24h == {5, 8}
Timestamps == [hour : 0..23, dayofweek : {4, 5}]

Transactions ==
    {[amount |-> a, card_present |-> c, distance_from_home |-> d,
      distance_from_last_transaction |-> 5, time_since_last_transaction |-> t,
      num_transactions_24h |-> n, num_transactions_7d |-> 25] :
        a \in Amounts, c \in {0, 1}, d \in Distances, t \in TimesSinceLast,
        n \in Transactions24h}

\* a stored training record may carry its timestamp
Records == Transactions \cup {With(x, "timestamp", ts) : x \in Transactions, ts \in Timestamps}

\* the record as the request body: the Transaction model has no timestamp field
AsTransaction(row) == [k \in (DOMAIN row) \ {"timestamp"} |-> row[k]]

\* ---- FeatureEngineer on a DataFrame of several rows.  A frame is its row
\* ---- count and its columns, each a Series; every create_* assigns whole
\* ---- columns computed from whole columns.

\* the frame of a list of rows that carry the same fields
FrameOf(rows) ==
    [n |-> Len(rows),
     cols |-> [c \in DOMAIN rows[1] |-> [i \in 1..Len(rows) |-> rows[i][c]]]]

\* df.iloc[i] as a record, and df.iloc[[i]] as a frame of one row
RowOf(frame, i) == [c \in DOMAIN frame.cols |-> frame.cols[c][i]]
OneRow(frame, i) == [n |-> 1, cols |-> [c \in DOMAIN frame.cols |-> <<frame.cols[c][i]>>]]

\* df[name] = series
SetColumn(frame, name, series) == [frame EXCEPT !.cols = (name :> series) @@ @]

\* a timestamp read from a CSV file is text until it is parsed
Text(ts) == [text |-> ts]
IsText(v) == "text" \in DOMAIN v

\* pd.api.types.is_datetime64_any_dtype(series): a property of the column
is_datetime64_any_dtype(series) == \A i \in DOMAIN series : ~IsText(series[i])

\* pd.to_datetime(series) on text in the one format to_csv writes
to_datetime(series) ==
    [i \in DOMAIN series |-> IF IsText(series[i]) THEN series[i].text ELSE series[i]]

\* amount categories cut at shares of the largest amount of the frame
batch_create_amount_features_relative(frame) ==
    LET amount == frame.cols["amount"]
        top == CHOOSE x \in Range(amount) : \A y \in Range(amount) : y <= x
    IN  SetColumn(frame, "amount_category",
            [i \in 1..frame.n |->
                IF 2 * amount[i] > top THEN "high" ELSE "low"])

batch_create_amount_features(frame) ==
    LET amount == frame.cols["amount"]
    IN  SetColumn(frame, "amount_category",
            [i \in 1..frame.n |-> Cut(amount[i], amount_bins, amount_labels)])

batch_create_temporal_features(frame) ==
    IF "timestamp" \in DOMAIN frame.cols
    THEN LET ts == IF is_datetime64_any_dtype(frame.cols["timestamp"])
                   THEN frame.cols["timestamp"]
                   ELSE to_datetime(frame.cols["timestamp"])
             hour == [i \in 1..frame.n |-> ts[i].hour]
             day_of_week == [i \in 1..frame.n |-> ts[i].dayofweek]
         IN  SetColumn(SetColumn(SetColumn(SetColumn(SetColumn(SetColumn(frame,
                "timestamp", ts),
                "hour", hour),
                "day_of_week", day_of_week),
                "is_weekend", [i \in 1..frame.n |-> AsInt(day_of_week[i] >= 5)]),
                "time_of_day", [i \in 1..frame.n |-> Cut(hour[i], hour_bins, hour_labels)]),
                "is_peak_hour", [i \in 1..frame.n |-> AsInt(hour[i] \in peak_hours)])
    ELSE frame

batch_create_velocity_features(frame) ==
    SetColumn(SetColumn(SetColumn(frame,
        "is_high_frequency_24h",
            [i \in 1..frame.n |-> AsInt(frame.cols["num_transactions_24h"][i] > 5)]),
        "is_high_frequency_7d",
            [i \in 1..frame.n |-> AsInt(frame.cols["num_transactions_7d"][i] > 20)]),
        "time_since_last_cat",
            [i \in 1..frame.n |-> Cut(frame.cols["time_since_last_transaction"][i],
                                      time_since_bins, time_since_labels)])

batch_create_distance_features(frame) ==
    SetColumn(SetColumn(SetColumn(frame,
        "distance_home_cat",
            [i \in 1..frame.n |-> Cut(frame.cols["distance_from_home"][i],
                                      distance_bins, distance_labels)]),
        "is_far_from_home",
            [i \in 1..frame.n |-> AsInt(frame.cols["distance_from_home"][i] > 100)]),
        "is_far_from_last",
            [i \in 1..frame.n |-> AsInt(frame.cols["distance_from_last_transaction"][i] > 50)])

\* the sum of the column expressions of lines 112-119; without the is_weekend
\* or is_peak_hour column df.get returns a plain number and .astype raises
batch_create_risk_score(frame) ==
    IF "is_weekend" \in DOMAIN frame.cols /\ "is_peak_hour" \in DOMAIN frame.cols
    THEN [status |-> "returned", error |-> "",
          frame |-> SetColumn(frame, "risk_score",
            [i \in 1..frame.n |->
                AsInt(frame.cols["amount"][i] > Cents(1000)) * 2
                + AsInt(frame.cols["card_present"][i] = 0)
                + AsInt(frame.cols["distance_from_home"][i] > 100)
                + AsInt(frame.cols["num_transactions_24h"][i] > 5)
                + WeekendTerm(frame.cols["is_weekend"][i])
                + AsInt(frame.cols["is_peak_hour"][i] = 0)])]
    ELSE [status |-> "raised", error |-> "AttributeError", frame |-> frame]

\* FeatureEngineer.fit_transform on a frame
batch_fit_transform(frame) ==
    batch_create_risk_score(
        batch_create_distance_features(
            batch_create_velocity_features(
                batch_create_temporal_features(
                    batch_create_amount_features(frame)))))

\* raw records of a batch: without a timestamp, with a datetime64 one, with
\* one still held as text
BatchTransactions ==
    {[amount |-> a, card_present |-> c, distance_from_home |-> 150 * c,
      distance_from_last_transaction |-> 5, time_since_last_transaction |-> 30,
      num_transactions_24h |-> 5 + 3 * c, num_transactions_7d |-> 25] :
        a \in {Cents(50), Cents(1500)}, c \in {0, 1}}
BatchTimestamps == {[hour |-> 9, dayofweek |-> 4], [hour |-> 0, dayofweek |-> 5],
                    [hour |-> 20, dayofweek |-> 6]}
BatchRecords ==
    [plain |-> BatchTransactions,
     datetime |-> {With(x, "timestamp", ts) : x \in BatchTransactions, ts \in BatchTimestamps},
     text |-> {With(x, "timestamp", Text(ts)) : x \in BatchTransactions, ts \in BatchTimestamps}]

\* frames of 1..MaxBatch records of one kind
BatchFrames ==
    UNION {{FrameOf(rows) : rows \in [1..k -> BatchRecords[kind]]} :
           k \in 1..MaxBatch, kind \in DOMAIN BatchRecords}

NoBatch == [n |-> 0, cols |-> <<>>]
NoBatchResult == [status |-> "none", error |-> "", frame |-> NoBatch]

\* no batch in hand
IdleBatch ==
    /\ batch = NoBatch
    /\ batch_out = NoBatchResult
    /\ single_out = <<>>

----------------------------------------------------------------------------
(* FraudMonitor.detect_data_drift (fraud_monitor.py:51-90).                *)
(* stats.ks_2samp is the exact two-sided two-sample test SciPy runs on     *)
(* samples of this size.  The statistic and the p-value are kept as exact  *)
(* fractions [num, den].                                                   *)

Rat(num, den) == [num |-> num, den |-> den]

\* p_value < threshold
Less_or_equal(a, b) == a.num * b.den <= b.num * a.den

Less(a, b) == a.num * b.den < b.num * a.den

Abs(x) == IF x < 0 THEN -x ELSE x

RECURSIVE GCD(_, _)
GCD(a, b) == IF b = 0 THEN a ELSE GCD(b, a % b)

Max(S) == CHOOSE x \in S : \A y \in S : y <= x

\* series.dropna()
dropna(series) == SelectSeq(series, LAMBDA cell : cell.kind # "nan")

\* the numbers of a sample
Values(vals) == [i \in 1..Len(vals) |-> vals[i].n]

\* np.searchsorted(sorted sample, x, side='right')
CountLE(xs, x) == Cardinality({i \in 1..Len(xs) : xs[i] <= x})

\* the largest of cdf1 - cdf2 alone, times n1 * n2
ks_distance_one_sided(xs, ys) ==
    Max({Len(ys) * CountLE(xs, x) - Len(xs) * CountLE(ys, x) :
            x \in Range(xs) \cup Range(ys)} \cup {0})

\* max |cdf1 - cdf2| over the pooled sample, times n1 * n2
ks_distance(xs, ys) ==
    Max({Abs(Len(ys) * CountLE(xs, x) - Len(xs) * CountLE(ys, x)) :
            x \in Range(xs) \cup Range(ys)})

\* Lattice paths from (0,0) to (n1,n2), one step per pooled observation,
\* that stay where |i/n1 - j/n2| < h/lcm: row j of the counts, built left
\* to right from row j-1.
RECURSIVE PathRow(_, _, _, _, _, _)
PathRow(prev, acc, j, n1, n2, hg) ==
    LET i == Len(acc)
        here == IF Abs(n2 * i - n1 * j) >= hg THEN 0
                ELSE IF i = 0 /\ j = 0 THEN 1
                ELSE (IF i = 0 THEN 0 ELSE acc[i])
                     + (IF j = 0 THEN 0 ELSE prev[i + 1])
    IN  IF i > n1 THEN acc
        ELSE PathRow(prev, Append(acc, here), j, n1, n2, hg)

RECURSIVE PathRows(_, _, _, _, _)
PathRows(prev, j, n1, n2, hg) ==
    IF j > n2 THEN prev[n1 + 1]
    ELSE PathRows(PathRow(prev, <<>>, j, n1, n2, hg), j + 1, n1, n2, hg)

\* paths that never reach distance h/lcm, where hg = h * gcd(n1, n2)
PathsInside(n1, n2, hg) == PathRows(<<>>, 0, n1, n2, hg)

\* all the paths: C(n1 + n2, n1)
PathsTotal(n1, n2) == PathRows(<<>>, 0, n1, n2, n1 * n2 + 1)

\* stats.ks_2samp(xs, ys) on two non-empty samples of numbers: the statistic
\* d = h/lcm and the exact P(D >= d), which is 1.0 when h = 0
ks_2samp(xs, ys) ==
    LET n1 == Len(xs)
        n2 == Len(ys)
        g == GCD(n1, n2)
        hg == ks_distance(xs, ys)
    IN  IF hg = 0 THEN [statistic |-> Rat(0, 1), p_value |-> Rat(1, 1)]
        ELSE [statistic |-> Rat(hg \div g, (n1 * n2) \div g),
              p_value |-> Rat(PathsTotal(n1, n2) - PathsInside(n1, n2, hg),
                              PathsTotal(n1, n2))]

\* a sample that holds both text and numbers cannot be sorted: TypeError
Unorderable(vals) ==
    /\ \E i \in 1..Len(vals) : vals[i].kind = "str"
    /\ \E i \in 1..Len(vals) : vals[i].kind # "str"

\* the test of one column where an empty sample counts as full drift
ColumnTest_empty_is_drift(baseline_vals, new_vals) ==
    IF ~(Len(baseline_vals) > 0 /\ Len(new_vals) > 0)
    THEN [raised |-> FALSE, tested |-> TRUE, statistic |-> Rat(1, 1),
          p_value |-> Rat(0, 1)]
    ELSE IF Unorderable(baseline_vals) \/ Unorderable(new_vals)
    THEN [raised |-> TRUE, tested |-> FALSE, statistic |-> Rat(0, 1),
          p_value |-> Rat(1, 1)]
    ELSE LET t == ks_2samp(Values(baseline_vals), Values(new_vals))
         IN  [raised |-> FALSE, tested |-> TRUE, statistic |-> t.statistic,
              p_value |-> t.p_value]

\* lines 71-77: the body of the try up to the test, on the two samples after
\* dropna
ColumnTest(baseline_vals, new_vals) ==
    IF ~(Len(baseline_vals) > 0 /\ Len(new_vals) > 0)
    THEN [raised |-> FALSE, tested |-> FALSE, statistic |-> Rat(0, 1),
          p_value |-> Rat(1, 1)]
    ELSE IF Unorderable(baseline_vals) \/ Unorderable(new_vals)
    THEN [raised |-> TRUE, tested |-> FALSE, statistic |-> Rat(0, 1),
          p_value |-> Rat(1, 1)]
    ELSE LET t == ks_2samp(Values(baseline_vals), Values(new_vals))
         IN  [raised |-> FALSE, tested |-> TRUE, statistic |-> t.statistic,
              p_value |-> t.p_value]

Flag(drift_results, col, t) ==
    [features_with_drift |->
        Append(drift_results.features_with_drift,
               [feature |-> col, p_value |-> t.p_value,
                statistic |-> t.statistic]),
     drift_detected |-> TRUE]

RECURSIVE DriftLoop(_, _, _, _, _)
\* the loop where a column whose test raises ends the scan
DriftLoop_raise_ends_scan(cols, baseline, new_data, threshold, drift_results) ==
    IF cols = <<>> THEN drift_results
    ELSE LET col == Head(cols)
             t == ColumnTest(dropna(Column(baseline, col)),
                             dropna(Column(new_data, col)))
         IN  IF t.raised THEN drift_results
             ELSE IF t.tested /\ Less(t.p_value, threshold)
             THEN DriftLoop(Tail(cols), baseline, new_data, threshold,
                            Flag(drift_results, col, t))
             ELSE DriftLoop(Tail(cols), baseline, new_data, threshold,
                            drift_results)

\* lines 70-87: for col in common_cols: try ... except: continue
DriftLoop(cols, baseline, new_data, threshold, drift_results) ==
    IF cols = <<>> THEN drift_results
    ELSE LET col == Head(cols)
             t == ColumnTest(dropna(Column(baseline, col)),
                             dropna(Column(new_data, col)))
         IN  IF t.raised
             THEN DriftLoop(Tail(cols), baseline, new_data, threshold,
                            drift_results)
             ELSE IF t.tested /\ Less(t.p_value, threshold)
             THEN DriftLoop(Tail(cols), baseline, new_data, threshold,
                            Flag(drift_results, col, t))
             ELSE DriftLoop(Tail(cols), baseline, new_data, threshold,
                            drift_results)

\* set(baseline.columns) & set(new_data.columns)
common_cols(baseline, new_data) ==
    Range(baseline.columns) \cap Range(new_data.columns)

\* list(a set of column names): the orders in which the set may be iterated
ListsOf(S) ==
    {order \in [1..Cardinality(S) -> S] : Range(order) = S}

\* detect_data_drift with common_cols iterated in `order`; the timestamp of
\* the result is not carried
detect_data_drift(baseline, new_data, threshold, order) ==
    DriftLoop(order, baseline, new_data, threshold,
              [features_with_drift |-> <<>>, drift_detected |-> FALSE])

\* ---- inputs of the monitor

\* The cell of row i in a column of each kind: a low range, a high range
\* far above it, all missing, and numbers with one text value among them.
MonitorCell(kind, i) ==
    IF kind = "low" THEN Int64(i - 1)
    ELSE IF kind = "high" THEN Int64(1000 + i - 1)
    ELSE IF kind = "missing" THEN NaN
    ELSE IF i = 1 THEN Str("n/a") ELSE Int64(i - 1)

\* k rows over the columns that are not absent
MonitorFrame(k, kinds) ==
    LET columns == SelectSeqBy(<<"amount", "risk_score">>,
                               {c \in DOMAIN kinds : kinds[c] # "absent"})
    IN  [columns |-> columns,
         rows |-> [i \in 1..k |->
                    [c \in Range(columns) |-> MonitorCell(kinds[c], i)]]]

ColumnKinds ==
    {kinds \in [amount : {"low", "high", "missing", "mixed", "absent"},
                risk_score : {"low", "high", "absent"}] :
        kinds.amount # "absent" \/ kinds.risk_score # "absent"}

\* the baseline file holds MaxSample rows
Baselines == {MonitorFrame(MaxSample, kinds) : kinds \in ColumnKinds}

\* new data of 1..MaxSample rows; a mixed column needs two rows
NewData ==
    UNION {{MonitorFrame(k, kinds) :
                kinds \in {kk \in ColumnKinds : kk.amount = "mixed" => k >= 2}} :
           k \in 1..MaxSample}

\* the default threshold 0.05, and 1.0
Thresholds == {Rat(1, 20), Rat(1, 1)}

NoDriftCall == [new_data |-> EmptyFrame, threshold |-> Rat(1, 20),
                result |-> [features_with_drift |-> <<>>,
                            drift_detected |-> FALSE]]

----------------------------------------------------------------------------
(* FraudMonitor.log_prediction and the predictions file                    *)
(* (fraud_monitor.py:29-49).                                               *)

\* the log is saved when its length is a multiple of this
FlushEvery == 100

\* the arguments of one log_prediction call, per kind of traffic; actual is
\* None until the label is known
PredictionCalls ==
    [legit |-> [features |-> [amount |-> Cents(50)], prediction |-> 0,
                probability |-> Rat(1, 10), actual |-> None],
     fraud |-> [features |-> [amount |-> Cents(1500)], prediction |-> 1,
                probability |-> Rat(9, 10), actual |-> Some(1)]]

\* the dict built at lines 32-38
log_entry(now, call) ==
    [timestamp |-> now, features |-> call.features, prediction |-> call.prediction,
     probability |-> call.probability, actual |-> call.actual]

\* a save that writes the entries added since the last save
_save_predictions_log_latest(log) ==
    [state |-> "ok", items |-> SubSeq(log, Len(log) - FlushEvery + 1, Len(log))]

\* open(filepath, 'w') and json.dump(self.predictions_log): the file is
\* replaced by the whole log
_save_predictions_log(log) == [state |-> "ok", items |-> log]

\* log_prediction: what it leaves in memory and on disk
log_prediction(log, file, entry) ==
    LET appended == Append(log, entry)
    IN  [predictions_log |-> appended,
         predictions_file |-> IF Len(appended) % FlushEvery = 0
                              THEN _save_predictions_log(appended)
                              ELSE file]

----------------------------------------------------------------------------
(* FraudMonitor.check_for_alerts and _save_alerts                          *)
(* (fraud_monitor.py:108-150).                                             *)

\* f"{x:.4f}": the value in ten-thousandths, rounded to nearest
Format4f(x) == (2 * 10000 * x.num + x.den) \div (2 * x.den)

min_precision == Rat(1, 5)
min_recall == Rat(7, 10)

\* the alerts list built at lines 112-128, stamped with the tick of the call
check_for_alerts(performance_metrics, now) ==
    LET low_precision == Less(performance_metrics.precision, min_precision)
        low_recall == Less(performance_metrics.recall, min_recall)
        precision_alert ==
            [severity |-> "HIGH", type |-> "LOW_PRECISION",
             message |-> <<"Precision dropped to",
                           Format4f(performance_metrics.precision)>>,
             timestamp |-> now]
        recall_alert ==
            [severity |-> "CRITICAL", type |-> "LOW_RECALL",
             message |-> <<"Recall dropped to", Format4f(performance_metrics.recall)>>,
             timestamp |-> now]
    IN  (IF low_precision THEN <<precision_alert>> ELSE <<>>)
        \o (IF low_recall THEN <<recall_alert>> ELSE <<>>)

\* a save that writes the new alerts alone
AlertsToWrite_new_only(existing_alerts, alerts) == alerts

\* existing_alerts.extend(alerts), the list handed to json.dump
AlertsToWrite(existing_alerts, alerts) == existing_alerts \o alerts

\* open(filepath, 'w'): the file is emptied at once, the text arrives later
open_w(file) == [state |-> "truncated", items |-> <<>>]

\* json.dump and close on a handle opened with 'w'.  The text lands at offset
\* 0 of whatever the file holds by then: on the file this handle emptied it is
\* the file; on text another handle wrote meanwhile it replaces that text when
\* it is at least as long and leaves a tail of it behind otherwise.
json_dump(file, items) ==
    IF file.state = "truncated"
    THEN {[state |-> "ok", items |-> items]}
    ELSE {[state |-> "ok", items |-> items], [state |-> "corrupt", items |-> <<>>]}

Threads == {1, 2}

IdleThread == [pc |-> "idle", alerts |-> <<>>, existing_alerts |-> <<>>, error |-> ""]

\* the metrics handed to check_for_alerts: at and below each minimum
AlertMetrics ==
    {[precision |-> p, recall |-> r] :
        p \in {Rat(1, 10), Rat(1, 5)}, r \in {Rat(1, 2), Rat(7, 10)}}

----------------------------------------------------------------------------
(* FraudMonitor.calculate_performance_metrics and                          *)
(* generate_monitoring_report (fraud_monitor.py:92-106, 156-175).          *)

\* num / den in lowest terms; 0 where sklearn's zero_division=0 applies
Ratio(num, den) ==
    IF den = 0 \/ num = 0 THEN Rat(0, 1)
    ELSE Rat(num \div GCD(num, den), den \div GCD(num, den))

\* the number of positions where predictions has p and actuals has a
Count(predictions, actuals, p, a) ==
    Cardinality({i \in DOMAIN predictions : predictions[i] = p /\ actuals[i] = a})

\* the metrics dict of lines 96-103
calculate_performance_metrics(predictions, actuals, now) ==
    LET tp == Count(predictions, actuals, 1, 1)
        fp == Count(predictions, actuals, 1, 0)
        fn == Count(predictions, actuals, 0, 1)
    IN  [timestamp |-> now,
         n_samples |-> Len(predictions),
         precision |-> Ratio(tp, tp + fp),
         recall |-> Ratio(tp, tp + fn),
         f1_score |-> Ratio(2 * tp, 2 * tp + fp + fn),
         fraud_rate |-> Ratio(SumSeq(actuals), Len(actuals))]

\* the slice log[-n:]
LastN(log, n) == SubSeq(log, IF Len(log) > n THEN Len(log) - n + 1 ELSE 1, Len(log))

RECURSIVE SumRat(_)
SumRat(s) ==
    IF s = <<>> THEN Rat(0, 1)
    ELSE LET rest == SumRat(Tail(s))
         IN  Ratio(Head(s).num * rest.den + rest.num * Head(s).den,
                   Head(s).den * rest.den)

\* np.mean(values) if the log is not empty else 0
MeanOrZero(values) ==
    IF values = <<>> THEN Rat(0, 1)
    ELSE LET total == SumRat(values)
         IN  Ratio(total.num, total.den * Len(values))

\* the report dict of lines 158-169
generate_monitoring_report(log, perf_log, drifts, now) ==
    [generated_at |-> now,
     total_predictions |-> Len(log),
     performance_metrics |-> LastN(perf_log, 10),
     drift_detections |-> LastN(drifts, 5),
     summary |->
        [avg_precision |-> MeanOrZero([i \in DOMAIN perf_log |-> perf_log[i].precision]),
         avg_recall |-> MeanOrZero([i \in DOMAIN perf_log |-> perf_log[i].recall]),
         drift_detected_count |->
            Cardinality({i \in DOMAIN drifts : drifts[i].drift_detected})]]

\* lines 172-174: open(filepath, 'w') and json.dump(report)
save_report(report) == [state |-> "ok", items |-> <<report>>]

\* evaluation runs on two labelled predictions: all right, a fraud missed,
\* a false alarm, and no fraud in sight
Evaluations ==
    {[predictions |-> <<1, 0>>, actuals |-> <<1, 0>>],
     [predictions |-> <<0, 0>>, actuals |-> <<1, 0>>],
     [predictions |-> <<1, 1>>, actuals |-> <<1, 0>>],
     [predictions |-> <<0, 0>>, actuals |-> <<0, 0>>]}

\* the baseline and the recent data of the reported monitor: one column,
\* recent values in the baseline's range or far above it
ReportBaseline == MonitorFrame(MaxSample, [amount |-> "low", risk_score |-> "absent"])
ReportNewData ==
    {MonitorFrame(MaxSample, [amount |-> kind, risk_score |-> "absent"]) :
        kind \in {"low", "high"}}

\* a monitor that has logged nothing
IdleStore ==
    /\ predictions_log = <<>>
    /\ predictions_file = NoFile
    /\ clock = 0
    /\ traffic = "legit"
    /\ alerts_file = NoFile
    /\ threads = [t \in Threads |-> IdleThread]
    /\ raised = <<>>
    /\ performance_log = <<>>
    /\ report_file = NoFile

----------------------------------------------------------------------------
(* Feature engineering state is idle while the preprocessor is exercised,  *)
(* and the other way round.                                                *)

NoRecord == [amount |-> 0]
NoFeatures == [status |-> "none"]
NoCall == [status |-> "none", error |-> "", X |-> EmptyFrame, y |-> NoY]

\* what the caller sees of a call
Outcome(r) == [status |-> r.status, error |-> r.error, X |-> r.X, y |-> r.y]

NoReply == [op |-> "none", input |-> EmptyFrame, out |-> NoCall]

InitPreprocessor ==
    /\ label_encoders = NewPreprocessor.label_encoders
    /\ scaler = NewPreprocessor.scaler
    /\ numeric_features = NewPreprocessor.numeric_features
    /\ categorical_features = NewPreprocessor.categorical_features
    /\ features_to_drop = NewPreprocessor.features_to_drop
    /\ op = "init"
    /\ df = EmptyFrame
    /\ result = NoCall
    /\ fit_df = EmptyFrame
    /\ fit_result = NoCall

SetSelf(self) ==
    /\ label_encoders' = self.label_encoders
    /\ scaler' = self.scaler
    /\ numeric_features' = self.numeric_features
    /\ categorical_features' = self.categorical_features
    /\ features_to_drop' = self.features_to_drop

\* preprocessor.fit_transform(b)
FitTransform(b) ==
    \E r \in {fit_transform(Self, b)} :
        /\ SetSelf(r.self)
        /\ op' = "fit_transform"
        /\ df' = b
        /\ result' = Outcome(r)
        /\ fit_df' = b
        /\ fit_result' = Outcome(r)
        /\ UNCHANGED <<fe_vars, art_vars, mon_vars>>

\* preprocessor.transform(b)
Transform(b) ==
    \E r \in {transform(Self, b)} :
        /\ SetSelf(r.self)
        /\ op' = "transform"
        /\ df' = b
        /\ result' = Outcome(r)
        /\ UNCHANGED <<fit_df, fit_result>>
        /\ UNCHANGED <<fe_vars, art_vars, mon_vars>>

\* nothing saved, no reading process
InitArtifacts ==
    /\ files = [preprocessor |-> NoFile, model |-> NoFile]
    /\ proc = "none"
    /\ other = NewPreprocessor
    /\ api = NotStarted
    /\ reply = NoReply

\* no monitor
IdleMonitor ==
    /\ baseline_data = EmptyFrame
    /\ drift_log = <<>>
    /\ drift_call = NoDriftCall
    /\ IdleStore

Init ==
    /\ InitPreprocessor
    /\ rec = NoRecord
    /\ train = NoFeatures
    /\ serve = NoFeatures
    /\ IdleBatch
    /\ InitArtifacts
    /\ IdleMonitor

\* ---- feature engineering: one record through both derivations

InitFE ==
    /\ InitPreprocessor
    /\ rec \in Records
    /\ train = NoFeatures
    /\ serve = NoFeatures
    /\ IdleBatch
    /\ InitArtifacts
    /\ IdleMonitor

\* engineer.fit_transform(rec)  (train_pipeline.py:69).  fit_transform hands
\* the caller's frame to create_amount_features and rebinds df to each result,
\* so the later create_* calls are handed frames the caller does not hold.
EngineerFeatures ==
    /\ train' = FeatureEngineer_fit_transform(rec)
    /\ rec' = ArgAfter(rec, create_amount_features(rec))
    /\ UNCHANGED <<serve, batch_vars>>
    /\ UNCHANGED <<pp_vars, call_vars, art_vars, mon_vars>>

\* POST /predict with the record's fields, served at instant `now`; a record
\* that carries a timestamp is served at that same instant.
PredictFraud(now) ==
    /\ "timestamp" \in DOMAIN rec => now = rec["timestamp"]
    /\ serve' = predict_features(AsTransaction(rec), now)
    /\ UNCHANGED <<rec, train, batch_vars>>
    /\ UNCHANGED <<pp_vars, call_vars, art_vars, mon_vars>>

NextFE ==
    \/ EngineerFeatures
    \/ \E now \in Timestamps : PredictFraud(now)

SpecFE == InitFE /\ [][NextFE]_vars

\* ---- feature engineering on a batch and on each of its records alone

InitBatch ==
    /\ InitPreprocessor
    /\ rec = NoRecord
    /\ train = NoFeatures
    /\ serve = NoFeatures
    /\ batch \in BatchFrames
    /\ batch_out = NoBatchResult
    /\ single_out = [i \in 1..batch.n |-> NoBatchResult]
    /\ InitArtifacts
    /\ IdleMonitor

\* engineer.fit_transform(batch)
EngineerBatch ==
    /\ batch_out.status = "none"
    /\ batch_out' = batch_fit_transform(batch)
    /\ UNCHANGED <<batch, single_out, rec, train, serve>>
    /\ UNCHANGED <<pp_vars, call_vars, art_vars, mon_vars>>

\* engineer.fit_transform(batch.iloc[[i]])
EngineerRecord(i) ==
    /\ single_out[i].status = "none"
    /\ single_out' = [single_out EXCEPT ![i] = batch_fit_transform(OneRow(batch, i))]
    /\ UNCHANGED <<batch, batch_out, rec, train, serve>>
    /\ UNCHANGED <<pp_vars, call_vars, art_vars, mon_vars>>

NextBatch ==
    \/ EngineerBatch
    \/ \E i \in 1..batch.n : EngineerRecord(i)

SpecBatch == InitBatch /\ [][NextBatch]_vars

\* ---- the artifacts: written by the training pipeline, read by a second
\* ---- preprocessor or by the API process

\* train_pipeline.py:74-75, the pipeline's one fit on a fresh preprocessor
PipelineFit(b) ==
    /\ op = "init"
    /\ FitTransform(b)

\* train_pipeline.py:76, reached when fit_transform returned
SavePreprocessor ==
    /\ op = "fit_transform" /\ result.status = "returned"
    /\ files.preprocessor.state = "missing"
    /\ files' = [files EXCEPT !.preprocessor = save_preprocessor(Self)]
    /\ UNCHANGED <<proc, other, api, reply>>
    /\ UNCHANGED <<pp_vars, call_vars, fe_vars, mon_vars>>

\* train_pipeline.py:105, trainer.save_best_model
SaveBestModel ==
    /\ files.preprocessor.state # "missing"
    /\ files.model.state = "missing"
    /\ files' = [files EXCEPT !.model = [state |-> "ok", items |-> <<>>]]
    /\ UNCHANGED <<proc, other, api, reply>>
    /\ UNCHANGED <<pp_vars, call_vars, fe_vars, mon_vars>>

\* the preprocessor file is damaged on disk before anything reads it
Damage ==
    /\ proc = "none"
    /\ files.preprocessor.state = "ok"
    /\ files' = [files EXCEPT !.preprocessor = [state |-> "corrupt", items |-> <<>>]]
    /\ UNCHANGED <<proc, other, api, reply>>
    /\ UNCHANGED <<pp_vars, call_vars, fe_vars, mon_vars>>

\* DataPreprocessor().load_preprocessor(path) in a new process
LoadPreprocessor ==
    /\ proc = "none"
    /\ \E r \in {load_preprocessor(NewPreprocessor, files.preprocessor)} :
          /\ other' = r.self
          /\ proc' = IF r.status = "returned" THEN "loader" ELSE "loader_failed"
          /\ reply' = [op |-> "load_preprocessor", input |-> EmptyFrame,
                       out |-> Outcome(r)]
    /\ UNCHANGED <<files, api>>
    /\ UNCHANGED <<pp_vars, call_vars, fe_vars, mon_vars>>

\* transform(b) on the preprocessor that loaded the file
TransformLoaded(b) ==
    /\ proc = "loader"
    /\ \E r \in {transform(other, b)} :
          /\ other' = r.self
          /\ reply' = [op |-> "transform", input |-> b, out |-> Outcome(r)]
    /\ UNCHANGED <<files, proc, api>>
    /\ UNCHANGED <<pp_vars, call_vars, fe_vars, mon_vars>>

\* the API module is loaded and served (main.py:29-41, 220-221)
Startup ==
    /\ proc = "none"
    /\ proc' = "api"
    /\ api' = startup(files)
    /\ UNCHANGED <<files, other, reply>>
    /\ UNCHANGED <<pp_vars, call_vars, fe_vars, mon_vars>>

\* POST /predict
Predict(data) ==
    /\ proc = "api" /\ api.running
    /\ \E r \in {predict_fraud(api, data)} :
          /\ api' = r.self
          /\ reply' = [op |-> "predict", input |-> data, out |-> Outcome(r)]
    /\ UNCHANGED <<files, proc, other>>
    /\ UNCHANGED <<pp_vars, call_vars, fe_vars, mon_vars>>

NextArtifact ==
    \/ \E b \in Batches : PipelineFit(b)
    \/ SavePreprocessor
    \/ SaveBestModel
    \/ Damage
    \/ LoadPreprocessor
    \/ \E b \in Batches : TransformLoaded(b)
    \/ Startup
    \/ \E data \in Requests : Predict(data)

SpecArtifact == Init /\ [][NextArtifact]_vars

\* ---- the monitor

\* monitor.detect_data_drift(new_data, threshold)
DetectDataDrift(new_data, threshold) ==
    /\ Len(drift_log) < MaxDriftRuns
    /\ \E order \in ListsOf(common_cols(baseline_data, new_data)) :
        \E r \in {detect_data_drift(baseline_data, new_data, threshold, order)} :
            /\ drift_log' = Append(drift_log, r)
            /\ drift_call' = [new_data |-> new_data, threshold |-> threshold,
                              result |-> r]
    /\ UNCHANGED <<baseline_data, store_vars>>
    /\ UNCHANGED <<pp_vars, call_vars, fe_vars, art_vars>>

InitMonitor ==
    /\ InitPreprocessor
    /\ rec = NoRecord
    /\ train = NoFeatures
    /\ serve = NoFeatures
    /\ IdleBatch
    /\ InitArtifacts
    /\ baseline_data \in Baselines
    /\ drift_log = <<>>
    /\ drift_call = NoDriftCall
    /\ IdleStore

NextMonitor ==
    \E new_data \in NewData, threshold \in Thresholds :
        DetectDataDrift(new_data, threshold)

SpecMonitor == InitMonitor /\ [][NextMonitor]_vars

\* ---- the predictions log

InitPredictions ==
    /\ InitPreprocessor
    /\ rec = NoRecord
    /\ train = NoFeatures
    /\ serve = NoFeatures
    /\ IdleBatch
    /\ InitArtifacts
    /\ baseline_data = EmptyFrame
    /\ drift_log = <<>>
    /\ drift_call = NoDriftCall
    /\ predictions_log = <<>>
    /\ predictions_file = NoFile
    /\ clock = 0
    /\ traffic \in DOMAIN PredictionCalls
    /\ alerts_file = NoFile
    /\ threads = [t \in Threads |-> IdleThread]
    /\ raised = <<>>
    /\ performance_log = <<>>
    /\ report_file = NoFile

\* monitor.log_prediction(features, prediction, probability, actual)
LogPrediction ==
    /\ Len(predictions_log) < MaxPredictions
    /\ clock' = clock + 1
    /\ \E r \in {log_prediction(predictions_log, predictions_file,
                                 log_entry(clock', PredictionCalls[traffic]))} :
          /\ predictions_log' = r.predictions_log
          /\ predictions_file' = r.predictions_file
    /\ UNCHANGED <<traffic, alert_vars, report_vars>>
    /\ UNCHANGED <<baseline_data, drift_log, drift_call>>
    /\ UNCHANGED <<pp_vars, call_vars, fe_vars, art_vars>>

NextPredictions == LogPrediction

SpecPredictions == InitPredictions /\ [][NextPredictions]_vars

\* ---- the evaluation runs and the report

InitReport ==
    /\ InitPreprocessor
    /\ rec = NoRecord
    /\ train = NoFeatures
    /\ serve = NoFeatures
    /\ IdleBatch
    /\ InitArtifacts
    /\ baseline_data = ReportBaseline
    /\ drift_log = <<>>
    /\ drift_call = NoDriftCall
    /\ IdleStore

\* monitor.calculate_performance_metrics(predictions, actuals)
CalculatePerformanceMetrics(predictions, actuals) ==
    /\ clock < MaxReportCalls
    /\ clock' = clock + 1
    /\ performance_log' = Append(performance_log,
            calculate_performance_metrics(predictions, actuals, clock'))
    /\ UNCHANGED <<report_file, log_vars, alert_vars>>
    /\ UNCHANGED <<baseline_data, drift_log, drift_call>>
    /\ UNCHANGED <<pp_vars, call_vars, fe_vars, art_vars>>

\* monitor.generate_monitoring_report()
GenerateMonitoringReport ==
    /\ clock < MaxReportCalls
    /\ clock' = clock + 1
    /\ report_file' = save_report(generate_monitoring_report(
            predictions_log, performance_log, drift_log, clock'))
    /\ UNCHANGED <<performance_log, log_vars, alert_vars>>
    /\ UNCHANGED <<baseline_data, drift_log, drift_call>>
    /\ UNCHANGED <<pp_vars, call_vars, fe_vars, art_vars>>

NextReport ==
    \/ \E new_data \in ReportNewData : DetectDataDrift(new_data, Rat(1, 20))
    \/ \E e \in Evaluations : CalculatePerformanceMetrics(e.predictions, e.actuals)
    \/ GenerateMonitoringReport

SpecReport == InitReport /\ [][NextReport]_vars

\* ---- the alerts file

\* thread t calls monitor.check_for_alerts(performance_metrics) and runs it
\* up to the call of _save_alerts, or to its return when no alert was built
CheckForAlerts(t, performance_metrics) ==
    /\ threads[t].pc = "idle"
    /\ clock < MaxAlertCalls
    /\ clock' = clock + 1
    /\ \E alerts \in {check_for_alerts(performance_metrics, clock')} :
          /\ raised' = raised \o alerts
          /\ threads' = [threads EXCEPT ![t] =
                [pc |-> IF alerts # <<>> THEN "exists" ELSE "idle",
                 alerts |-> alerts, existing_alerts |-> <<>>, error |-> ""]]
    /\ UNCHANGED <<alerts_file, log_vars, report_vars>>
    /\ UNCHANGED <<baseline_data, drift_log, drift_call>>
    /\ UNCHANGED <<pp_vars, call_vars, fe_vars, art_vars>>

\* _save_alerts, lines 140-141: existing_alerts = [] and filepath.exists()
SaveAlertsExists(t) ==
    /\ threads[t].pc = "exists"
    /\ threads' = [threads EXCEPT ![t].pc =
                      IF alerts_file.state = "missing" THEN "open" ELSE "load"]
    /\ UNCHANGED <<alerts_file, raised, clock, log_vars, report_vars>>
    /\ UNCHANGED <<baseline_data, drift_log, drift_call>>
    /\ UNCHANGED <<pp_vars, call_vars, fe_vars, art_vars>>

\* lines 142-143: json.load of the file; text that is not a JSON document
\* raises JSONDecodeError out of check_for_alerts
SaveAlertsLoad(t) ==
    /\ threads[t].pc = "load"
    /\ threads' = [threads EXCEPT ![t] =
          IF alerts_file.state = "ok"
          THEN [@ EXCEPT !.pc = "open", !.existing_alerts = alerts_file.items]
          ELSE [@ EXCEPT !.pc = "idle", !.error = "JSONDecodeError"]]
    /\ UNCHANGED <<alerts_file, raised, clock, log_vars, report_vars>>
    /\ UNCHANGED <<baseline_data, drift_log, drift_call>>
    /\ UNCHANGED <<pp_vars, call_vars, fe_vars, art_vars>>

\* lines 146 and 149: extend, then open(filepath, 'w')
SaveAlertsOpen(t) ==
    /\ threads[t].pc = "open"
    /\ threads' = [threads EXCEPT ![t] =
          [@ EXCEPT !.pc = "dump",
                    !.existing_alerts = AlertsToWrite(@, threads[t].alerts)]]
    /\ alerts_file' = open_w(alerts_file)
    /\ UNCHANGED <<raised, clock, log_vars, report_vars>>
    /\ UNCHANGED <<baseline_data, drift_log, drift_call>>
    /\ UNCHANGED <<pp_vars, call_vars, fe_vars, art_vars>>

\* line 150 and the end of the with block, then the prints and the return
SaveAlertsDump(t) ==
    /\ threads[t].pc = "dump"
    /\ alerts_file' \in json_dump(alerts_file, threads[t].existing_alerts)
    /\ threads' = [threads EXCEPT ![t].pc = "idle"]
    /\ UNCHANGED <<raised, clock, log_vars, report_vars>>
    /\ UNCHANGED <<baseline_data, drift_log, drift_call>>
    /\ UNCHANGED <<pp_vars, call_vars, fe_vars, art_vars>>

\* one step of thread t
ThreadStep(t) ==
    \/ \E performance_metrics \in AlertMetrics : CheckForAlerts(t, performance_metrics)
    \/ SaveAlertsExists(t)
    \/ SaveAlertsLoad(t)
    \/ SaveAlertsOpen(t)
    \/ SaveAlertsDump(t)

\* check_for_alerts called again and again by one thread
NextAlerts == ThreadStep(1)

SpecAlerts == Init /\ [][NextAlerts]_vars

\* check_for_alerts called by two threads on the one monitor
NextAlertRace == \E t \in Threads : ThreadStep(t)

SpecAlertRace == Init /\ [][NextAlertRace]_vars

Next ==
    \/ \E b \in Batches : FitTransform(b)
    \/ \E b \in Batches : Transform(b)

Spec == Init /\ [][Next]_vars


----------------------------------------------------------------------------
(* Claims *)

\* C1: train/serve parity.  When transform is called on the batch the
\* preprocessor was last fitted on, it returns the feature matrix and the
\* label vector that fit_transform returned for that batch.
C1_TrainServeParity ==
    (op = "transform" /\ df = fit_df /\ fit_result.status = "returned")
        => /\ result.status = "returned"
           /\ result.X = fit_result.X
           /\ result.y = fit_result.y

\* a parity case with two categories, a label and a numeric column of
\* nonzero variance
C1_Witness ==
    /\ op = "transform" /\ df = fit_df /\ fit_result.status = "returned"
    /\ result.status = "returned"
    /\ result.y.present
    /\ "merchant_category" \in Range(result.X.columns)
    /\ \E i, j \in 1..Len(result.X.rows) :
          /\ result.X.rows[i]["merchant_category"] # result.X.rows[j]["merchant_category"]
          /\ result.X.rows[i]["amount"].kind = "float"
          /\ result.X.rows[i]["amount"].n # 0

\* C2: the risk_score derived at training time equals the one derived at
\* serving time for the same record at the same instant.
C2_RiskScoreParity ==
    (train.status = "returned" /\ serve.status = "returned")
        => train["risk_score"] = serve["risk_score"]

\* C3: the training-time risk_score is exactly the sum of the four weighted
\* signals; the end-to-end record scores 5, is "high" and is far from home.
C3_RiskScoreFormula ==
    train.status = "returned"
        => /\ train["risk_score"] =
                2 * (IF rec["amount"] > Cents(1000) THEN 1 ELSE 0)
                + (IF rec["card_present"] = 0 THEN 1 ELSE 0)
                + (IF rec["distance_from_home"] > 100 THEN 1 ELSE 0)
                + (IF rec["num_transactions_24h"] > 5 THEN 1 ELSE 0)
           /\ (/\ rec["amount"] = Cents(1500) /\ rec["card_present"] = 0
               /\ rec["distance_from_home"] = 150 /\ rec["num_transactions_24h"] = 8)
                => /\ train["risk_score"] = 5
                   /\ train["amount_category"] = "high"
                   /\ train["is_far_from_home"] = 1

\* C4 as stated: amount = 50.0 is bucketed "low", at training and at serving.
C4_FiftyIsLow ==
    /\ (train.status = "returned" /\ rec["amount"] = Cents(50))
          => train["amount_category"] = "low"
    /\ (serve.status = "returned" /\ rec["amount"] = Cents(50))
          => serve["amount_category"] = "low"

\* C4 amended: amount = 50.0 is the closed right end of (0, 50] and is
\* bucketed "very_low", at training and at serving.
C4_FiftyIsVeryLow ==
    /\ (train.status = "returned" /\ rec["amount"] = Cents(50))
          => train["amount_category"] = "very_low"
    /\ (serve.status = "returned" /\ rec["amount"] = Cents(50))
          => serve["amount_category"] = "very_low"

C4_Witness ==
    /\ rec["amount"] = Cents(50)
    /\ train.status = "returned" /\ serve.status = "returned"
    /\ train["amount_category"] = "very_low"

\* C5: amounts are bucketed left-open/right-closed at 50, 200, 1000: 50.01 is
\* "low", 1000.0 is "medium", 1000.01 is "high"; (50,200] is "low", (200,1000]
\* is "medium", above 1000 is "high".
C5_AmountBuckets ==
    train.status = "returned"
        => LET a == rec["amount"]
               cat == train["amount_category"]
           IN  /\ a = Cents(50) + 1 => cat = "low"
               /\ a = Cents(1000) => cat = "medium"
               /\ a = Cents(1000) + 1 => cat = "high"
               /\ (Cents(50) < a /\ a <= Cents(200)) => cat = "low"
               /\ (Cents(200) < a /\ a <= Cents(1000)) => cat = "medium"
               /\ a > Cents(1000) => cat = "high"

C5_Witness ==
    /\ train.status = "returned"
    /\ rec["amount"] = Cents(200)
    /\ train["amount_category"] = "low"

\* C6: for every valid record each bucketed feature holds one of its four
\* declared labels.
C6_DeclaredLabels ==
    train.status = "returned"
        => /\ train["amount_category"] \in {"very_low", "low", "medium", "high"}
           /\ train["distance_home_cat"] \in {"very_close", "close", "medium", "far"}
           /\ train["time_since_last_cat"] \in {"recent", "normal", "long_gap", "very_long"}

\* C7: time_of_day is "night" on [0,6), "morning" on [6,12), "afternoon" on
\* [12,18) and "evening" on [18,24), at training and at serving.
TimeOfDayByHour(h) ==
    IF h < 6 THEN "night" ELSE IF h < 12 THEN "morning"
    ELSE IF h < 18 THEN "afternoon" ELSE "evening"

C7_TimeOfDay ==
    /\ train.status = "returned"
          => train["time_of_day"] = TimeOfDayByHour(train["hour"])
    /\ serve.status = "returned"
          => serve["time_of_day"] = TimeOfDayByHour(serve["hour"])

\* C8: after a fit, transform gives -1 to every category string the encoder
\* was not fitted on, gives every fitted string the code fit_transform gave it,
\* and does not raise on account of an unseen category.
C8_UnseenCategory ==
    (op = "transform" /\ fit_result.status = "returned")
        => /\ Range(numeric_features) \subseteq Range(df.columns)
                => result.status = "returned"
           /\ result.status = "returned"
                => \A c \in Range(categorical_features) \cap Range(df.columns) :
                   \A i \in 1..Len(df.rows) :
                      LET x == AsStr(df.rows[i][c])
                          seen == {j \in 1..Len(fit_df.rows) : AsStr(fit_df.rows[j][c]) = x}
                      IN  IF seen = {}
                          THEN result.X.rows[i][c] = Int64(-1)
                          ELSE \A j \in seen :
                                  result.X.rows[i][c] = fit_result.X.rows[j][c]

\* one transform holding a fitted category and an unseen one
C8_Witness ==
    /\ op = "transform" /\ fit_result.status = "returned"
    /\ result.status = "returned"
    /\ "merchant_category" \in Range(categorical_features)
    /\ "merchant_category" \in Range(df.columns)
    /\ \E i, j \in 1..Len(df.rows) :
          /\ result.X.rows[i]["merchant_category"] = Int64(-1)
          /\ result.X.rows[j]["merchant_category"] = Int64(0)

\* C9: transform on a preprocessor that was never fitted raises a not-fitted
\* error.
C9_TransformBeforeFit ==
    (op = "transform" /\ scaler.state = "None")
        => /\ result.status = "raised"
           /\ result.error = "NotFittedError"

\* C10: after any sequence of fit_transform calls the fitted state is what a
\* fresh preprocessor holds after fit_transform on the last batch alone.
C10_RefitOverwrites ==
    op = "fit_transform" => Self = fit_transform(NewPreprocessor, fit_df).self

\* C12: the feature matrix returned by fit_transform and by transform never
\* holds the transaction_id, the timestamp or the label column, whatever the
\* batch, a transform batch that carries one the fit batch lacked included.
C12_NoDroppedColumns ==
    (fit_result.status = "returned" /\ result.status = "returned")
        => Range(result.X.columns)
              \cap {"transaction_id", "timestamp", target_col} = {}

\* C13: for a batch with the same set of columns as the fit batch, in any
\* order, transform returns its columns in the order fit_transform produced.
C13_TransformColumnOrder ==
    (/\ op = "transform" /\ result.status = "returned"
     /\ fit_result.status = "returned"
     /\ Range(df.columns) = Range(fit_df.columns))
        => result.X.columns = fit_result.X.columns

\* C14: a numeric column that is constant in the fit batch is scaled to 0.0
\* by fit_transform and by a later transform of that same value, and no
\* scaled value is NaN or infinite.
C14_ZeroVariance ==
    fit_result.status = "returned"
        => \A c \in Range(numeric_features) :
              /\ (\A i \in 1..Len(fit_df.rows) :
                      fit_df.rows[i][c] = fit_df.rows[1][c])
                    => /\ \A i \in 1..Len(fit_df.rows) :
                              fit_result.X.rows[i][c] = Float(0, 1)
                       /\ (/\ op = "transform" /\ result.status = "returned"
                           /\ c \in Range(df.columns))
                             => \A i \in 1..Len(df.rows) :
                                   df.rows[i][c] = fit_df.rows[1][c]
                                      => result.X.rows[i][c] = Float(0, 1)
              /\ \A i \in 1..Len(fit_result.X.rows) :
                    /\ fit_result.X.rows[i][c].kind = "float"
                    /\ fit_result.X.rows[i][c].d > 0
              /\ (/\ op = "transform" /\ result.status = "returned"
                  /\ c \in Range(df.columns))
                    => \A i \in 1..Len(df.rows) :
                          /\ result.X.rows[i][c].kind = "float"
                          /\ result.X.rows[i][c].d > 0

\* a two-row fit batch with one amount, then a transform that holds that
\* amount and another one
C14_Witness ==
    /\ op = "transform" /\ fit_result.status = "returned"
    /\ result.status = "returned"
    /\ Len(fit_df.rows) = 2
    /\ "amount" \in Range(numeric_features)
    /\ fit_df.rows[1]["amount"] = fit_df.rows[2]["amount"]
    /\ "amount" \in Range(df.columns)
    /\ \E i, j \in 1..Len(df.rows) :
          /\ df.rows[i]["amount"] = fit_df.rows[1]["amount"]
          /\ result.X.rows[i]["amount"] = Float(0, 1)
          /\ df.rows[j]["amount"] # fit_df.rows[1]["amount"]

\* C11: transform leaves the fitted state of the preprocessor as it was, and
\* predict_fraud leaves the loaded model and preprocessor bundle as they were.
C11_TransformReadOnly ==
    [][/\ (reply' # reply /\ reply'.op = "transform") => other' = other
       /\ (reply' # reply /\ reply'.op = "predict") => api' = api]_vars

\* a transform has returned an encoded, scaled matrix from the loaded state
C11_Witness ==
    /\ proc = "loader" /\ reply.op = "transform"
    /\ reply.out.status = "returned"
    /\ other.scaler.state = "fitted"
    /\ DOMAIN other.label_encoders # {}
    /\ \E c \in DOMAIN other.label_encoders : c \in Range(reply.input.columns)

\* C15: a fresh preprocessor that loads the file a fitted one saved holds the
\* same five fields, and its transform gives the fitted one's output on
\* every batch.
C15_SaveLoadRoundTrip ==
    proc = "loader"
        => /\ other = Self
           /\ reply.op = "transform"
                 => reply.out = Outcome(transform(Self, reply.input))

\* the loaded preprocessor has transformed a batch with an unseen category
C15_Witness ==
    /\ proc = "loader" /\ reply.op = "transform"
    /\ reply.out.status = "returned"
    /\ "merchant_category" \in DOMAIN label_encoders
    /\ "amount" \in Range(numeric_features)
    /\ {"amount", "merchant_category"} \subseteq Range(reply.out.X.columns)
    /\ \E i \in 1..Len(reply.out.X.rows) :
          /\ reply.out.X.rows[i]["merchant_category"] = Int64(-1)
          /\ reply.out.X.rows[i]["amount"].kind = "float"

\* C16: with the model or preprocessor artifact missing or corrupted, the
\* serving process never reaches a running state with the model or the
\* preprocessor unloaded.
C16_StartupFatal ==
    (proc = "api" /\ api.running)
        => ~api.model.is_none /\ ~api.preprocessor.is_none

\* ---- detect_data_drift: what the claims speak of, in the terms of the
\* ---- last call

DriftCalled == Len(drift_log) > 0

MonitorColumns == Range(baseline_data.columns) \cup Range(drift_call.new_data.columns)

Flagged(col) ==
    \E i \in 1..Len(drift_call.result.features_with_drift) :
        drift_call.result.features_with_drift[i].feature = col

BaselineVals(col) == dropna(Column(baseline_data, col))
NewVals(col) == dropna(Column(drift_call.new_data, col))

InBoth(col) ==
    /\ col \in Range(baseline_data.columns)
    /\ col \in Range(drift_call.new_data.columns)

\* the test of the column raises: both samples hold values, one cannot be
\* sorted
TestFails(col) ==
    /\ InBoth(col)
    /\ BaselineVals(col) # <<>> /\ NewVals(col) # <<>>
    /\ Unorderable(BaselineVals(col)) \/ Unorderable(NewVals(col))

\* the test of the column was run to its end
TestRun(col) ==
    /\ InBoth(col)
    /\ BaselineVals(col) # <<>> /\ NewVals(col) # <<>>
    /\ ~TestFails(col)

PValue(col) == ks_2samp(Values(BaselineVals(col)), Values(NewVals(col))).p_value

\* the two samples lie in disjoint ranges
DisjointRanges(col) ==
    LET xs == Range(Values(BaselineVals(col)))
        ys == Range(Values(NewVals(col)))
    IN  \/ \A x \in xs, y \in ys : x < y
        \/ \A x \in xs, y \in ys : y < x

RECURSIVE Binomial(_, _)
Binomial(n, k) == IF k = 0 THEN 1 ELSE (Binomial(n - 1, k - 1) * n) \div k

\* C17: a column is in features_with_drift exactly when its test was run and
\* gave a p-value strictly below the threshold, and drift_detected is true
\* exactly when features_with_drift is non-empty.
C17_FlaggedIffBelowThreshold ==
    DriftCalled
        => /\ \A col \in MonitorColumns :
                Flagged(col)
                    <=> /\ TestRun(col)
                        /\ PValue(col).num * drift_call.threshold.den
                              < drift_call.threshold.num * PValue(col).den
           /\ drift_call.result.drift_detected
                <=> drift_call.result.features_with_drift # <<>>

\* identical samples at threshold 1.0 are not flagged, while another column
\* of the same call is
C17_Witness ==
    /\ DriftCalled
    /\ drift_call.threshold = Rat(1, 1)
    /\ \E c1, c2 \in MonitorColumns :
          /\ TestRun(c1) /\ PValue(c1) = Rat(1, 1) /\ ~Flagged(c1)
          /\ TestRun(c2) /\ Flagged(c2)
    /\ drift_call.result.drift_detected

\* C18: new data equal to the baseline gives p-value 1.0 for every column and
\* drift_detected = false; a column whose two samples lie in disjoint ranges
\* gets a p-value below 0.05 and the result reports drift_detected = true.
C18_DisjointAlwaysDrift ==
    DriftCalled
        => /\ drift_call.new_data = baseline_data
                => /\ \A col \in MonitorColumns : TestRun(col) => PValue(col) = Rat(1, 1)
                   /\ ~drift_call.result.drift_detected
           /\ \A col \in MonitorColumns :
                (TestRun(col) /\ DisjointRanges(col))
                    => /\ Less(PValue(col), Rat(1, 20))
                       /\ drift_call.result.drift_detected

\* C18, amended: as above, for disjoint samples of n1 and n2 values with
\* 2 / C(n1 + n2, n1) < 0.05, that is C(n1 + n2, n1) > 40.
C18_DriftSanity ==
    DriftCalled
        => /\ drift_call.new_data = baseline_data
                => /\ \A col \in MonitorColumns : TestRun(col) => PValue(col) = Rat(1, 1)
                   /\ ~drift_call.result.drift_detected
           /\ \A col \in MonitorColumns :
                (/\ TestRun(col) /\ DisjointRanges(col)
                 /\ Binomial(Len(BaselineVals(col)) + Len(NewVals(col)),
                             Len(NewVals(col))) > 40)
                    => /\ Less(PValue(col), Rat(1, 20))
                       /\ Flagged(col)
                       /\ drift_call.result.drift_detected

\* disjoint samples large enough, flagged at the default threshold
C18_Witness ==
    /\ DriftCalled
    /\ drift_call.threshold = Rat(1, 20)
    /\ TestRun("amount") /\ DisjointRanges("amount")
    /\ Len(BaselineVals("amount")) = MaxSample
    /\ Len(NewVals("amount")) = MaxSample
    /\ Flagged("amount")
    /\ drift_call.result.drift_detected

\* C19: a column present in only one of the two data sets, or empty in
\* either after dropna, is never flagged and does not set drift_detected.
C19_SkippedNeverFlagged ==
    DriftCalled
        => /\ \A col \in MonitorColumns :
                (\/ ~InBoth(col)
                 \/ BaselineVals(col) = <<>>
                 \/ NewVals(col) = <<>>) => ~Flagged(col)
           /\ (\A col \in MonitorColumns :
                  \/ ~InBoth(col)
                  \/ BaselineVals(col) = <<>>
                  \/ NewVals(col) = <<>>)
                => ~drift_call.result.drift_detected

\* one column is all missing values in the new data, the other is flagged
C19_Witness ==
    /\ DriftCalled
    /\ InBoth("amount")
    /\ BaselineVals("amount") # <<>> /\ NewVals("amount") = <<>>
    /\ ~Flagged("amount")
    /\ Flagged("risk_score")

\* C20: when the test of a column fails, the call still returns, that column
\* is not in features_with_drift, and every other common column is tested
\* and flagged by the p-value rule.
C20_FailureIsolated ==
    (DriftCalled /\ \E bad \in MonitorColumns : TestFails(bad))
        => \A col \in MonitorColumns :
              /\ TestFails(col) => ~Flagged(col)
              /\ (InBoth(col) /\ ~TestFails(col))
                    => (Flagged(col)
                          <=> /\ TestRun(col)
                              /\ Less(PValue(col), drift_call.threshold))

\* the test of amount fails and risk_score is flagged in the same call
C20_Witness ==
    /\ DriftCalled
    /\ TestFails("amount")
    /\ ~Flagged("amount")
    /\ TestRun("risk_score")
    /\ Flagged("risk_score")

C26_MissingFieldNamed ==
    (train.status # "none" /\ "timestamp" \notin DOMAIN rec)
        => /\ train.status = "raised"
           /\ "timestamp" \in train.names

\* C29: the weekend term contributes 0 to risk_score for every record, two
\* records that differ only in is_weekend get the same score, and the score
\* lies in 0..6.
C29_WeekendTermZero ==
    train.status = "returned"
        => /\ train["risk_score"]
                = RiskSignals(rec) + AsInt(train["is_peak_hour"] = 0)
           /\ train["risk_score"] \in 0..6
           /\ create_risk_score(
                 With(train, "is_weekend", 1 - train["is_weekend"]))["risk_score"]
                    = train["risk_score"]

\* a weekend record with every other signal raised scores 6
C29_Witness ==
    /\ train.status = "returned"
    /\ train["is_weekend"] = 1
    /\ train["risk_score"] = 6

\* the strings of column c of the last fit batch, row by row
FitStrings(c) == [i \in 1..Len(fit_df.rows) |-> AsStr(fit_df.rows[i][c])]

\* the row at which the string of row i first appears
FirstRow(strings, i) ==
    CHOOSE j \in 1..i : /\ strings[j] = strings[i]
                        /\ \A k \in 1..(j - 1) : strings[k] # strings[i]

EncodedAtFit(c) ==
    /\ fit_result.status = "returned"
    /\ c \in Range(categorical_features)
    /\ c \in Range(fit_result.X.columns)

\* C27: the encoder gives the categories of a column integer codes in order
\* of first appearance in the fit data (first distinct value 0, the next new
\* value 1, ...), and later applies use the same codes.
C27_FirstSeenCodes ==
    \A c \in {"merchant_category"} :
        EncodedAtFit(c)
            => \A i \in 1..Len(fit_df.rows) :
                  fit_result.X.rows[i][c]
                      = Int64(Cardinality(
                          {FitStrings(c)[j] : j \in 1..(FirstRow(FitStrings(c), i) - 1)}))

\* C27, amended: the codes follow the sorted order of the distinct strings of
\* the fit data (the smallest string 0, the next 1, ...), and later applies
\* use the same codes.
C27_SortedCodes ==
    \A c \in {"merchant_category"} :
        EncodedAtFit(c)
            => /\ \A i \in 1..Len(fit_df.rows) :
                    fit_result.X.rows[i][c]
                        = Int64(Cardinality(
                            {x \in Range(FitStrings(c)) :
                                IndexOf(StrOrder, x)
                                    < IndexOf(StrOrder, FitStrings(c)[i])}))
               /\ (/\ op = "transform" /\ result.status = "returned"
                   /\ c \in Range(df.columns))
                     => \A i \in 1..Len(df.rows), j \in 1..Len(fit_df.rows) :
                           AsStr(df.rows[i][c]) = FitStrings(c)[j]
                              => result.X.rows[i][c] = fit_result.X.rows[j][c]

\* a fit batch whose first category sorts after its second, applied again
C27_Witness ==
    /\ op = "transform" /\ result.status = "returned"
    /\ EncodedAtFit("merchant_category")
    /\ Len(fit_df.rows) = 2
    /\ FitStrings("merchant_category") = <<"gas", "food">>
    /\ fit_result.X.rows[1]["merchant_category"] = Int64(1)
    /\ fit_result.X.rows[2]["merchant_category"] = Int64(0)
    /\ "merchant_category" \in Range(df.columns)
    /\ \E i \in 1..Len(df.rows) : result.X.rows[i]["merchant_category"] = Int64(1)

\* C30: the numeric and categorical feature lists are disjoint from each
\* other and from the drop list, and encoded categorical columns are never
\* standardized: fit_transform returns codes in 0..k-1 in every categorical
\* column, transform codes in -1..k-1, k the number of fitted categories.
C30_FeatureListsAndCodes ==
    /\ Range(numeric_features) \cap Range(categorical_features) = {}
    /\ (Range(numeric_features) \cup Range(categorical_features))
          \cap (Range(features_to_drop) \cup {target_col}) = {}
    /\ (op = "fit_transform" /\ result.status = "returned")
          => \A c \in Range(categorical_features) :
                /\ c \in Range(result.X.columns)
                /\ \A i \in 1..Len(result.X.rows) :
                      /\ result.X.rows[i][c].kind = "int"
                      /\ result.X.rows[i][c].n \in 0..(Len(label_encoders[c]) - 1)
    /\ (op = "transform" /\ result.status = "returned")
          => \A c \in Range(categorical_features) \cap Range(result.X.columns) :
                \A i \in 1..Len(result.X.rows) :
                    /\ result.X.rows[i][c].kind = "int"
                    /\ result.X.rows[i][c].n \in -1..(Len(label_encoders[c]) - 1)

\* a transform whose categorical column holds an unseen and a fitted
\* category next to a scaled numeric column
C30_Witness ==
    /\ op = "transform" /\ result.status = "returned"
    /\ categorical_features = <<"merchant_category">>
    /\ numeric_features = <<"amount">>
    /\ {"amount", "merchant_category"} \subseteq Range(result.X.columns)
    /\ Len(result.X.rows) = 2
    /\ result.X.rows[1]["merchant_category"] = Int64(-1)
    /\ result.X.rows[2]["merchant_category"] = Int64(0)
    /\ result.X.rows[1]["amount"].kind = "float"


\* C28: after n log_prediction calls made one after another the in-memory
\* log holds the n entries in call order (the i-th entry is the one stamped by
\* the i-th call), and the predictions file is written only by a call whose
\* number is a multiple of 100, so that it is absent while n < 100 and
\* otherwise holds the first 100 * floor(n / 100) entries.
C28_PeriodicFlush ==
    /\ [](/\ Len(predictions_log) = clock
          /\ \A i \in 1..Len(predictions_log) :
                predictions_log[i] = log_entry(i, PredictionCalls[traffic])
          /\ IF clock < FlushEvery
             THEN predictions_file = NoFile
             ELSE /\ predictions_file.state = "ok"
                  /\ predictions_file.items =
                        SubSeq(predictions_log, 1, FlushEvery * (clock \div FlushEvery)))
    /\ [][predictions_file' # predictions_file => clock' % FlushEvery = 0]_vars

\* the second flush has happened and fifty more calls were logged since
C28_Witness ==
    /\ clock = 2 * FlushEvery + 50
    /\ Len(predictions_file.items) = 2 * FlushEvery
    /\ Len(predictions_log) = clock

\* the alerts file as a list: nothing while the file is absent
PersistedAlerts == IF alerts_file.state = "ok" THEN alerts_file.items ELSE <<>>

\* no thread is inside check_for_alerts
NoCallRunning == \A t \in Threads : threads[t].pc = "idle"

\* C22: check_for_alerts calls run one after another only add to the alerts
\* file: between calls the file holds every alert built by every call so far,
\* in call order (it is absent while no alert was built), and a call that
\* builds no alert leaves the file as it was.
C22_AlertsAccumulate ==
    NoCallRunning =>
        /\ PersistedAlerts = raised
        /\ alerts_file.state = (IF raised = <<>> THEN "missing" ELSE "ok")
        /\ threads[1].error = ""

\* three calls were made, the second built no alert, the file holds the two
\* alerts of the first call followed by the alert of the third
C22_Witness ==
    /\ NoCallRunning
    /\ clock = 3
    /\ Len(PersistedAlerts) = 3
    /\ PersistedAlerts[1].timestamp = 1
    /\ PersistedAlerts[2].timestamp = 1
    /\ PersistedAlerts[3].timestamp = 3

\* C23: when two threads call check_for_alerts on the monitor at the same
\* time, the file holds the alerts of both calls once both have returned.
C23_NoAlertLost ==
    NoCallRunning =>
        /\ \A t \in Threads : threads[t].error = ""
        /\ alerts_file.state \in {"missing", "ok"}
        /\ \A i \in 1..Len(raised) :
              \E j \in 1..Len(PersistedAlerts) : PersistedAlerts[j] = raised[i]

\* the drift records and the evaluation records the report file holds
PersistedDrift ==
    IF report_file.state = "ok" THEN report_file.items[1].drift_detections ELSE <<>>
PersistedPerformance ==
    IF report_file.state = "ok" THEN report_file.items[1].performance_metrics ELSE <<>>

\* C21: after any sequence of detect_data_drift, calculate_performance_metrics
\* and generate_monitoring_report calls, durable storage holds one record per
\* drift run and one per evaluation run made so far, the earlier ones kept.
C21_EveryRunPersisted ==
    /\ PersistedDrift = drift_log
    /\ PersistedPerformance = performance_log

====
